---- MODULE Spec2Model ----
(***************************************************************************)
(* A state-machine model of the WindSE solver managers                     *)
(* (windse/SolverManager.py) and of the parts of the problem managers      *)
(* (windse/ProblemManager.py) they drive.                                  *)
(*                                                                         *)
(* Arithmetic.  Times are fixed-point numbers: an integer number of ticks  *)
(* of 0.005 time units, so that the source's dt_min = 0.01 is 2 ticks.     *)
(* Every floating-point division of the source is a division rounded to   *)
(* the nearest tick (RoundDiv).  A velocity field is represented by its    *)
(* peak value (what u_k.vector().max() reads), a pressure field by a tag.  *)
(***************************************************************************)
EXTENDS Integers, Sequences, FiniteSets

(***************************************************************************)
(* Program constants.                                                      *)
(***************************************************************************)
\* AdjustTimestepSize: dt_min = 0.01, in ticks
dt_min == 2
\* ticks per time unit (0.01 time units are dt_min ticks)
TicksPerUnit == 100 * dt_min
\* AdjustTimestepSize: cfl_target = 0.2, in tenths
cfl_target == 2
\* UnsteadySolver.Solve: tFinal = 50.0
tFinal == 50 * TicksPerUnit
\* UnsteadySolver.Solve: saveInterval = 10.0
saveInterval == 10 * TicksPerUnit
\* SteadySolver.Solve: snes_solver maximum_iterations
maximum_iterations == 50

(***************************************************************************)
(* Bounds of the model.                                                    *)
(***************************************************************************)
\* the time loop is followed while simTime >= -MaxBack ticks
MaxBack == 0
\* the largest num_wind_angles of a configuration
MaxAngles == 3
\* the largest number of ChangeWindAngle calls a calling script makes
MaxCalls == 2

\* mesh.hmin() of the meshes considered (length units)
HMinValues == {200, 249, 600}
\* bd.vmax of the inflows considered
VMaxValues == {1, 8}
\* the peak velocities u_k.vector().max() a solve can produce
UMaxValues == {1, 2, 3}
\* the numbers of time slices the precomputed turbulence files can hold
NumSlicesValues == {2, 5}
\* the values of params["problem"]["type"]
ProblemTypes == {"stabilized", "taylor_hood", "unsteady"}
\* the values of params["domain"]["type"]
DomainTypes == {"box", "rectangle", "cylinder", "interpolated"}
\* the output option lists considered
OutputChoices == { {"solution"},
                   {"mesh", "initial_guess", "height", "turbine_force", "solution"} }
\* 1e-4 rad^2, the limit of the squared yaw, in milliradians squared
YawSquaredLimit == 100

\* the yaw arrays of the farms tried (milliradians): one or two turbines, yaw
\* at, below and above 0.01 rad
YawChoices == { << 0 >>, << 11 >>, << 0, 11 >>, << -11, 0 >>, << 10, 10 >> }

\* 1e-50, the magnitude below which a force entry is set to 0; forces are
\* counted in units of 1e-51
ForceFloor == 10

\* dom.dim, the number of sample points of the function space, the largest
\* farm.numturbs and the number of UpdateTurbineForce calls followed
ForceDim == 2
NumPoints == 2
MaxTurbs == 2
MaxForceCalls == 2

\* the values of F*T*D of a turbine at a sample point (units of 1e-51)
KernelValues == {3, 10}

\* (cos(yaw), sin(yaw)) of a turbine: yaw 0, pi/2 and pi
Axes == { << 1, 0 >>, << 0, 1 >>, << -1, 0 >> }

\* (ux, uy) of u_k1 at a sample point
VelocityValues == { << 1, 0 >>, << 0, 2 >> }

\* what every entry of tf.vector() holds before the calls: 0 after
\* construction, or what an earlier time step left
PreviousValues == {0, 12}

\* the values of params["solver"]["init_wind_angle"] (degrees)
InitWindValues == {0, 90}
\* the value of params["solver"]["final_wind_angle"] (degrees)
FinalWind == 270
\* the iteration counts the nonlinear solver can stop with
IterSamples == {1, 7, maximum_iterations}
\* the angles a calling script passes to ChangeWindAngle (degrees)
CallAngles == {0, 90}
\* the inflow grids considered: at most MaxNodes nodes a direction, at
\* coordinates 0..MaxCoord
MaxNodes == 3
MaxCoord == 3
\* the coefficients of the velocity grids considered
GridCoefs == {0, 1, 3}

VARIABLES
    solver,             \* the solver class that is run
    params,             \* the configuration: problem type, domain type, output list
    hmin, vmax,         \* problem.dom.mesh.hmin(), problem.bd.vmax
    nslices,            \* np.shape(uTotal)[2]: time slices in the inflow files
    pc,                 \* position in the running handler
    error,              \* the exception that ended the run, or "none"
    dt, dt_c,           \* problem.dt and the FEniCS constant problem.dt_c (ticks)
    u_k, u_k1, u_k2,    \* peak values of the velocity fields
    p_k, p_k1,          \* tags of the pressure fields
    tf,                 \* the turbine force: the peak velocity it was computed from
    simTime, saveCount, save_next_timestep,   \* locals of UnsteadySolver.Solve
    u_max, u_max_k1,    \* locals of UnsteadySolver.Solve
    dt_new,             \* local of AdjustTimestepSize: the candidate before clamping
    fp,                 \* the list of time-series file handles
    savedInputs,        \* the input data saved before the solve
    bcu,                \* the velocity boundary-condition list
    interpolated,       \* the slices bilinearInterp was run on
    A1,                 \* the assembled step-1 matrix: the dt and inlet it was built with
    solved,             \* whether a linear or nonlinear solve was attempted
    records,            \* the time-series records written, in order
    saveCalls,          \* the simTime argument of every SaveTimeSeries call, in order
    up_next,            \* problem.up_next: what the mixed solution field holds
    u_next,             \* solver.u_next, solver.p_next: the split copies
    nu_T,               \* solver.nu_T: the symbolic form or its projection
    first_save,         \* GenericSolver.first_save
    solutions,          \* the solution files written by GenericSolver.Save
    snes,               \* the outcome of the nonlinear solver, inside solve()
    ret,                \* what SteadySolver.Solve handed back to its caller
    angles, ai,         \* MultiAngleSolver.angles and the loop index of its Solve
    wind,               \* the wind angle the markers, inflow and force are set for
    theta,              \* the argument of the running ChangeWindAngle call
    calls,              \* the number of calls the calling script has made
    callLog,            \* history: every ChangeWindAngle call and the state it left
    solveLog,           \* history: every nonlinear solve and the state it started in
    interp,             \* an inflow grid, a query point and what bilinearInterp returned
    steps,              \* history: the steps the running loop iteration has performed
    iterFlag,           \* history: save_next_timestep when the running iteration began
    iterCount,          \* history: 0 before the loop, 1 in its first iteration, 2 later
    corrected,          \* history: the velocity the last velocity correction produced
    farm,               \* problem.farm: the yaw of every turbine (milliradians)
    F,                  \* problem.F: how the turbine force enters the steady residual
    force               \* the turbines, u_k1 and tf.vector() of an UpdateTurbineForce call

vars == << solver, params, hmin, vmax, nslices, pc, error, dt, dt_c,
           u_k, u_k1, u_k2, p_k, p_k1, tf, simTime, saveCount, save_next_timestep,
           u_max, u_max_k1, dt_new, fp, savedInputs, bcu, interpolated, A1, solved,
           records, saveCalls, up_next, u_next, nu_T, first_save, solutions, snes,
           ret, angles, ai, wind, theta, calls, callLog, solveLog,
           interp, steps, iterFlag, iterCount, corrected, farm, F, force >>

cfgVars == << solver, params, hmin, vmax, nslices, interp, farm, force >>
fieldVars == << u_k, u_k1, u_k2, p_k, p_k1 >>
loopVars == << simTime, saveCount, save_next_timestep >>
ioVars == << fp, savedInputs, records, saveCalls >>
histVars == << steps, iterFlag, iterCount, corrected >>
unsteadyVars == << dt, dt_c, fieldVars, tf, loopVars, u_max, u_max_k1, dt_new, fp,
                   records, saveCalls, bcu, interpolated, A1, histVars >>
steadyVars == << up_next, u_next, nu_T, first_save, solutions, snes, ret, solveLog, F >>
angleVars == << angles, ai, wind, theta, calls, callLog >>

(***************************************************************************)
(* Arithmetic helpers.                                                     *)
(***************************************************************************)
Abs(x) == IF x < 0 THEN -x ELSE x

\* a / b for b # 0, rounded to the nearest integer (ties away from zero)
RoundDiv(a, b) ==
    LET q == (2 * Abs(a) + Abs(b)) \div (2 * Abs(b))
    IN  IF (a < 0) # (b < 0) THEN -q ELSE q

\* UnsteadyProblem.__init__: self.dt = 0.1*self.dom.mesh.hmin()/self.bd.vmax
InitialDt(h, v) == RoundDiv(h * TicksPerUnit, 10 * v)

\* GetBoundaryConditions(0.0), 3D free slip: inflow profile on the left wall
\* (slice -1: no turbulence slice loaded) and slip conditions on the others
InitialBcu ==
    << [wall |-> "left", slice |-> -1], [wall |-> "bottom", slice |-> -1],
       [wall |-> "top", slice |-> -1], [wall |-> "back", slice |-> -1],
       [wall |-> "front", slice |-> -1] >>

NoMatrix == [dt |-> 0, inlet |-> -2]

(***************************************************************************)
(* UnsteadySolver.bilinearInterp                                           *)
(***************************************************************************)
\* element k of a zero-based array
At0(a, k) == a[k + 1]

\* lines 632-634 and 637-639: the node index ptr, starting at p, such that
\* x[ptr-1] < xi <= x[ptr], kept below len(x)
RECURSIVE NodePtr(_, _, _)
NodePtr(x, xi, p) ==
    IF At0(x, p) < xi /\ p < Len(x) - 1 THEN NodePtr(x, xi, p + 1) ELSE p

\* lines 646-649: u[yk, xk], the first index of the array follows y
CornerValue(u, yk, xk) == At0(At0(u, yk), xk)

\* u has a row yk and a column xk (numpy raises IndexError otherwise)
InGrid(u, yk, xk) == yk < Len(u) /\ xk < Len(At0(u, 0))

\* lines 644-658 for one component u
InterpComponent(xi, yi, x, y, u, xptr, yptr) ==
    LET a11 == CornerValue(u, yptr - 1, xptr - 1)
                    * (At0(x, xptr) - xi) * (At0(y, yptr) - yi)
        a12 == CornerValue(u, yptr, xptr - 1)
                    * (At0(x, xptr) - xi) * (yi - At0(y, yptr - 1))
        a21 == CornerValue(u, yptr - 1, xptr)
                    * (xi - At0(x, xptr - 1)) * (At0(y, yptr) - yi)
        a22 == CornerValue(u, yptr, xptr)
                    * (xi - At0(x, xptr - 1)) * (yi - At0(y, yptr - 1))
        cell == (At0(x, xptr) - At0(x, xptr - 1)) * (At0(y, yptr) - At0(y, yptr - 1))
    IN  RoundDiv(a11 + a12 + a21 + a22, cell)

\* bilinearInterp(xi, yi, x, y, velList), lines 630-660
bilinearInterp(xi, yi, x, y, velList) ==
    LET xptr == NodePtr(x, xi, 1)
        yptr == NodePtr(y, yi, 1)
    IN  IF \A c \in 1..Len(velList) : InGrid(velList[c], yptr, xptr)
        THEN [kind |-> "value",
              ui |-> [c \in 1..Len(velList) |->
                        InterpComponent(xi, yi, x, y, velList[c], xptr, yptr)]]
        ELSE [kind |-> "IndexError", ui |-> << >>]

\* the coordinates xi[1] and xi[2] of the boundary points tried: on, between
\* and outside the grid coordinates
QueryValues == -1..(MaxCoord + 1)

\* the strictly ascending coordinate vectors considered (np.linspace over a
\* coordinate range, lines 567-568, and uneven ones)
CoordVectors ==
    { v \in UNION { [1..n -> 0..MaxCoord] : n \in 2..MaxNodes } :
        \A k \in 1..(Len(v) - 1) : v[k] < v[k + 1] }

\* a velocity grid of shape [ny, nz]
GridOf(ny, nz, a, b) == [i \in 1..ny |-> [j \in 1..nz |-> a * i + b * j]]

\* no interpolation is asked for
NoInterp == [y |-> << >>, z |-> << >>, velList |-> << >>, i |-> 0, j |-> 0,
             xi |-> 0, yi |-> 0,
             result |-> [kind |-> "none", ui |-> << >>]]

(***************************************************************************)
(* The residual of the steady problems                                     *)
(***************************************************************************)
\* ProblemManager.py lines 138 and 200: self.farm.yaw[0]**2 > 1e-4 chooses the
\* vector term inner(tf, v), anything else the term tf*(u[0]**2 + u[1]**2)
TurbineTerm(yaw) ==
    IF At0(yaw, 0) * At0(yaw, 0) > YawSquaredLimit THEN "vector" ELSE "scalar"

(***************************************************************************)
(* UnsteadySolver.UpdateTurbineForce: the numeric force vector             *)
(***************************************************************************)
\* line 511: uD = ux*np.cos(yaw) + uy*np.sin(yaw), for turbine k at point i
uD(fr, k, i) == fr.u[i][1] * fr.axis[k][1] + fr.u[i][2] * fr.axis[k][2]

\* lines 513-514: what turbine k adds to column comp (0-based) of tf_array at
\* point i; only the columns 0 and 1 are added to
Contribution(fr, k, i, comp) ==
    IF comp <= 1
    THEN fr.kernel[k][i] * fr.axis[k][comp + 1] * uD(fr, k, i) * uD(fr, k, i)
    ELSE 0

\* lines 432 and 451-514: tf_array starts as zeros and the loop over the
\* turbines 1..k adds every contribution
RECURSIVE tf_array(_, _, _, _)
tf_array(fr, k, i, comp) ==
    IF k = 0 THEN 0
    ELSE tf_array(fr, k - 1, i, comp) + Contribution(fr, k, i, comp)

\* mutant of Truncated: an entry of magnitude exactly 1e-50 is zeroed too
Truncated_Inclusive(x) == IF Abs(x) <= ForceFloor THEN 0 ELSE x

\* line 521: tf_vec[np.abs(tf_vec) < 1e-50] = 0.0
Truncated(x) == IF Abs(x) < ForceFloor THEN 0 ELSE x

\* lines 518-521: the columns of tf_array riffled into a vector, entry n
\* (1-based) is column (n-1) % dim of point (n-1) \div dim, then truncated
tf_vec(fr) ==
    [n \in 1..(ForceDim * NumPoints) |->
        Truncated(tf_array(fr, fr.numturbs, ((n - 1) \div ForceDim) + 1,
                           (n - 1) % ForceDim))]

\* no force vector is followed; before is history: tf ahead of the last call
NoForce == [numturbs |-> 0, axis |-> << >>, kernel |-> << >>, u |-> << >>,
            tf |-> << >>, before |-> << >>, calls |-> 0]

(***************************************************************************)
(* Construction: the state after the problem and the solver are built.     *)
(***************************************************************************)
\* UnsteadyProblem.__init__ (lines 231-336) and the locals of Solve before it
\* runs: dt = 0.1*hmin/vmax, u_k1 and u_k2 seeded with the inflow profile
UnsteadyFields ==
    /\ error = "none"
    /\ dt = InitialDt(hmin, vmax)
    /\ dt_c = dt
    /\ u_k = 0 /\ u_k1 = vmax /\ u_k2 = vmax
    /\ p_k = 0 /\ p_k1 = 0
    /\ tf = 0
    /\ simTime = 0 /\ saveCount = 0 /\ save_next_timestep = FALSE
    /\ u_max = 0 /\ u_max_k1 = 0 /\ dt_new = 0
    /\ fp = << >>
    /\ savedInputs = {}
    /\ bcu = << >>
    /\ interpolated = {}
    /\ A1 = NoMatrix
    /\ solved = FALSE
    /\ records = << >>
    /\ saveCalls = << >>
    /\ steps = << >> /\ iterFlag = FALSE /\ iterCount = 0 /\ corrected = 0

\* the boundary markers and the inflow velocity set for angle a, the turbine
\* force built with delta_yaw = a - dom.init_wind (ComputeFunctional, line 106;
\* the domain is built for the configured init_wind_angle)
WindAt(a) == [markers |-> a, velocity |-> a, force |-> a - params.init_wind]

\* no value handed back yet / the value None of a function that returns nothing
NotReturned == [kind |-> "pending", converged |-> FALSE, iters |-> 0]
ReturnedNone == [kind |-> "None", converged |-> FALSE, iters |-> 0]

\* a steady problem and GenericSolver.__init__ (lines 44-50): up_next holds the
\* initial guess bd.u0, the solver holds its split copies
SteadyFields ==
    /\ up_next = "u0" /\ u_next = "u0" /\ nu_T = "form"
    /\ first_save = TRUE
    /\ solutions = << >>
    /\ snes = [converged |-> FALSE, iters |-> 0]
    /\ ret = NotReturned
    /\ solveLog = << >>
    /\ F = IF params.type = "unsteady" THEN "none" ELSE TurbineTerm(farm.yaw)

UnsteadyInit ==
    /\ solver = "UnsteadySolver"
    /\ params \in [type : ProblemTypes, domain : {"box"}, output : OutputChoices,
                   init_wind : {0}, final_wind : {0}, num_wind : {1}]
    /\ farm = [yaw |-> << 0 >>]
    /\ hmin \in HMinValues
    /\ vmax \in VMaxValues
    /\ nslices \in NumSlicesValues
    /\ pc = "Solve"
    /\ UnsteadyFields
    /\ SteadyFields
    /\ angles = << >> /\ ai = 0 /\ wind = WindAt(0)
    /\ theta = 0 /\ calls = 0 /\ callLog = << >>
    /\ interp = NoInterp
    /\ force = NoForce

SteadyInit ==
    /\ solver = "SteadySolver"
    /\ params \in [type : {"stabilized", "taylor_hood"}, domain : DomainTypes,
                   output : OutputChoices,
                   init_wind : {0}, final_wind : {0}, num_wind : {1}]
    /\ farm \in [yaw : YawChoices]
    /\ hmin \in HMinValues
    /\ vmax \in VMaxValues
    /\ nslices = 0
    /\ pc = "Solve"
    /\ UnsteadyFields
    /\ SteadyFields
    /\ angles = << >> /\ ai = 0 /\ wind = WindAt(0)
    /\ theta = 0 /\ calls = 0 /\ callLog = << >>
    /\ interp = NoInterp
    /\ force = NoForce

\* the state before MultiAngleSolver(problem) is constructed
MultiAngleInit ==
    /\ solver = "MultiAngleSolver"
    /\ params \in [type : {"stabilized", "taylor_hood"}, domain : DomainTypes,
                   output : OutputChoices,
                   init_wind : InitWindValues, final_wind : {FinalWind},
                   num_wind : 1..MaxAngles]
    /\ farm \in [yaw : YawChoices]
    /\ hmin \in HMinValues
    /\ vmax \in VMaxValues
    /\ nslices = 0
    /\ pc = "construct"
    /\ UnsteadyFields
    /\ SteadyFields
    /\ angles = << >> /\ ai = 0 /\ wind = WindAt(params.init_wind)
    /\ theta = 0 /\ calls = 0 /\ callLog = << >>
    /\ interp = NoInterp
    /\ force = NoForce

\* a script that holds a problem of any kind and calls its ChangeWindAngle
CallerInit ==
    /\ solver = "Caller"
    /\ params \in [type : ProblemTypes, domain : {"cylinder"},
                   output : { {"solution"} },
                   init_wind : InitWindValues, final_wind : {FinalWind},
                   num_wind : {1}]
    /\ farm \in [yaw : YawChoices]
    /\ hmin \in {200}
    /\ vmax \in {8}
    /\ nslices = 0
    /\ pc = "idle"
    /\ UnsteadyFields
    /\ SteadyFields
    /\ angles = << >> /\ ai = 0 /\ wind = WindAt(params.init_wind)
    /\ theta = 0 /\ calls = 0 /\ callLog = << >>
    /\ interp = NoInterp
    /\ force = NoForce

Init == UnsteadyInit \/ SteadyInit \/ MultiAngleInit \/ CallerInit

\* the inflow arrays of updateInletVelocityFromFile, lines 556-585: coordinate
\* vectors y and z, one time slice of the velocity components
InterpInit ==
    /\ solver = "UnsteadySolver"
    /\ params = [type |-> "unsteady", domain |-> "box", output |-> {"solution"},
                 init_wind |-> 0, final_wind |-> 0, num_wind |-> 1]
    /\ farm = [yaw |-> << 0 >>]
    /\ hmin = 200 /\ vmax = 8 /\ nslices = 1
    /\ pc = "interpolate"
    /\ UnsteadyFields
    /\ SteadyFields
    /\ angles = << >> /\ ai = 0 /\ wind = WindAt(0)
    /\ theta = 0 /\ calls = 0 /\ callLog = << >>
    /\ \E y \in CoordVectors, z \in CoordVectors, a \in GridCoefs, b \in GridCoefs :
            interp = [y |-> y, z |-> z,
                      velList |-> << GridOf(Len(y), Len(z), a, b),
                                     GridOf(Len(y), Len(z), b, a + 1) >>,
                      i |-> 0, j |-> 0, xi |-> 0, yi |-> 0,
                      result |-> NoInterp.result]
    /\ force = NoForce

\* an unsteady problem about to call UpdateTurbineForce (line 293): a farm of
\* numturbs turbines, the velocity u_k1 and the present contents of tf
ForceInit ==
    /\ solver = "UnsteadySolver"
    /\ params = [type |-> "unsteady", domain |-> "box", output |-> {"solution"},
                 init_wind |-> 0, final_wind |-> 0, num_wind |-> 1]
    /\ farm = [yaw |-> << 0 >>]
    /\ hmin = 200 /\ vmax = 8 /\ nslices = 1
    /\ pc = "force_call"
    /\ UnsteadyFields
    /\ SteadyFields
    /\ angles = << >> /\ ai = 0 /\ wind = WindAt(0)
    /\ theta = 0 /\ calls = 0 /\ callLog = << >>
    /\ interp = NoInterp
    /\ \E n \in 0..MaxTurbs :
       \E ax \in [1..n -> Axes], ke \in [1..n -> [1..NumPoints -> KernelValues]],
          vel \in [1..NumPoints -> VelocityValues], old \in PreviousValues :
            force = [numturbs |-> n, axis |-> ax, kernel |-> ke, u |-> vel,
                     tf |-> [m \in 1..(ForceDim * NumPoints) |-> old],
                     before |-> [m \in 1..(ForceDim * NumPoints) |-> old],
                     calls |-> 0]

(***************************************************************************)
(* UnsteadySolver.Solve                                                    *)
(***************************************************************************)
Raise(e) ==
    /\ pc' = "raised"
    /\ error' = e

\* mutant of TypeAccepted: every problem type is let through
TypeAccepted_Any(type) == TRUE

\* Solve, line 199: the problem types the unsteady solver runs with
TypeAccepted(type) == type = "unsteady"

\* Solve, lines 199-203: the problem type is checked first
SolveCheckType ==
    /\ solver = "UnsteadySolver" /\ pc = "Solve"
    /\ IF TypeAccepted(params.type)
       THEN pc' = "setup" /\ error' = error
       ELSE Raise("ValueError_ProblemType")
    /\ UNCHANGED << cfgVars, steadyVars, angleVars, dt, dt_c, fieldVars, tf, loopVars, u_max, u_max_k1,
                    dt_new, ioVars, bcu, interpolated, A1, solved,
                    histVars >>

\* the file handles Solve creates, lines 229-235
OpenFiles(output) ==
    << "velocity.pvd", "pressure.pvd", "nu_T.pvd" >>
        \o (IF "turbine_force" \in output THEN << "turbineForce.pvd" >> ELSE << >>)

\* the input data Solve saves, lines 238-243 (the domain is three-dimensional)
InputsSaved(output) == output \cap {"mesh", "initial_guess", "height"}

\* Solve, lines 207-277: counters, file handles, input data, boundary
\* conditions, first assembly
SolveSetup ==
    /\ pc = "setup"
    /\ simTime' = 0
    /\ saveCount' = 0
    /\ save_next_timestep' = FALSE
    /\ fp' = OpenFiles(params.output)
    /\ savedInputs' = InputsSaved(params.output)
    /\ bcu' = InitialBcu
    /\ A1' = [dt |-> dt_c, inlet |-> InitialBcu[1].slice]
    /\ pc' = "loop"
    /\ UNCHANGED << cfgVars, steadyVars, angleVars, error, dt, dt_c, fieldVars, tf, u_max, u_max_k1, dt_new,
                    interpolated, solved, records, saveCalls,
                    histVars >>

\* while simTime < tFinal, line 287
LoopTest ==
    /\ pc = "loop"
    /\ simTime >= -MaxBack
    /\ pc' = IF simTime < tFinal THEN "force" ELSE "done"
    /\ steps' = IF simTime < tFinal THEN << >> ELSE steps
    /\ iterFlag' = IF simTime < tFinal THEN save_next_timestep ELSE iterFlag
    /\ iterCount' = IF simTime < tFinal /\ iterCount < 2 THEN iterCount + 1 ELSE iterCount
    /\ UNCHANGED << cfgVars, steadyVars, angleVars, error, dt, dt_c, fieldVars, tf, loopVars, u_max, u_max_k1,
                    dt_new, ioVars, bcu, interpolated, A1, solved,
                    corrected >>

\* mutant of UpdateTurbineForce: the vector of u_k1 is worked on in place
UpdateTurbineForce_InPlace ==
    /\ pc = "force"
    /\ tf' = u_k1
    /\ u_k1' = 0
    /\ pc' = "step1"
    /\ steps' = Append(steps, "UpdateTurbineForce")
    /\ UNCHANGED << cfgVars, steadyVars, angleVars, error, dt, dt_c, u_k, u_k2, p_k, p_k1,
                    loopVars, u_max, u_max_k1, dt_new, ioVars, bcu, interpolated, A1,
                    solved,
                    iterFlag, iterCount, corrected >>

\* mutant of UpdateTurbineForce: the force is computed from u_k2
UpdateTurbineForce_FromUk2 ==
    /\ pc = "force"
    /\ tf' = u_k2
    /\ pc' = "step1"
    /\ steps' = Append(steps, "UpdateTurbineForce")
    /\ UNCHANGED << cfgVars, steadyVars, angleVars, error, dt, dt_c, fieldVars, loopVars, u_max, u_max_k1,
                    dt_new, ioVars, bcu, interpolated, A1, solved,
                    iterFlag, iterCount, corrected >>

\* UpdateTurbineForce, lines 427-524: tf is set from the turbines and u_k1
UpdateTurbineForce ==
    /\ pc = "force"
    /\ tf' = u_k1
    /\ pc' = "step1"
    /\ steps' = Append(steps, "UpdateTurbineForce")
    /\ UNCHANGED << cfgVars, steadyVars, angleVars, error, dt, dt_c, fieldVars, loopVars, u_max, u_max_k1,
                    dt_new, ioVars, bcu, interpolated, A1, solved,
                    iterFlag, iterCount, corrected >>

\* lines 297-302: record the old peak velocity, solve for the tentative velocity
TentativeVelocity ==
    /\ pc = "step1"
    /\ u_max_k1' = u_k
    /\ \E u \in UMaxValues : u_k' = u
    /\ solved' = TRUE
    /\ pc' = "step2"
    /\ steps' = Append(steps, "TentativeVelocity")
    /\ UNCHANGED << cfgVars, steadyVars, angleVars, error, dt, dt_c, u_k1, u_k2, p_k, p_k1, tf, loopVars,
                    u_max, dt_new, ioVars, bcu, interpolated, A1,
                    iterFlag, iterCount, corrected >>

\* lines 305-307: solve for the pressure (tagged by the tentative velocity)
PressureCorrection ==
    /\ pc = "step2"
    /\ p_k' = u_k
    /\ pc' = "step3"
    /\ steps' = Append(steps, "PressureCorrection")
    /\ UNCHANGED << cfgVars, steadyVars, angleVars, error, dt, dt_c, u_k, u_k1, u_k2, p_k1, tf, loopVars,
                    u_max, u_max_k1, dt_new, ioVars, bcu, interpolated, A1, solved,
                    iterFlag, iterCount, corrected >>

\* lines 310-311: solve for the corrected velocity
VelocityCorrection ==
    /\ pc = "step3"
    /\ \E u \in UMaxValues : u_k' = u
    /\ pc' = "shift"
    /\ steps' = Append(steps, "VelocityCorrection")
    /\ corrected' = u_k'
    /\ UNCHANGED << cfgVars, steadyVars, angleVars, error, dt, dt_c, u_k1, u_k2, p_k, p_k1, tf, loopVars,
                    u_max, u_max_k1, dt_new, ioVars, bcu, interpolated, A1, solved,
                    iterFlag, iterCount >>

\* mutant of HistoryShift: u_k1 is overwritten before it is copied to u_k2
HistoryShift_NewestFirst ==
    /\ pc = "shift"
    /\ u_k1' = u_k
    /\ u_k2' = u_k1'
    /\ p_k1' = p_k
    /\ pc' = "advance"
    /\ steps' = Append(steps, "HistoryShift")
    /\ UNCHANGED << cfgVars, steadyVars, angleVars, error, dt, dt_c, u_k, p_k, tf, loopVars, u_max, u_max_k1,
                    dt_new, ioVars, bcu, interpolated, A1, solved,
                    iterFlag, iterCount, corrected >>

\* lines 314-316: old <- new
HistoryShift ==
    /\ pc = "shift"
    /\ u_k2' = u_k1
    /\ u_k1' = u_k
    /\ p_k1' = p_k
    /\ pc' = "advance"
    /\ steps' = Append(steps, "HistoryShift")
    /\ UNCHANGED << cfgVars, steadyVars, angleVars, error, dt, dt_c, u_k, p_k, tf, loopVars, u_max, u_max_k1,
                    dt_new, ioVars, bcu, interpolated, A1, solved,
                    iterFlag, iterCount, corrected >>

\* mutant of AdvanceTime: the reload and the save are not guarded by the flag
AdvanceTime_AlwaysSaves ==
    /\ pc = "advance"
    /\ u_max' = u_k
    /\ simTime' = simTime + dt
    /\ pc' = "inlet"
    /\ steps' = Append(steps, "AdvanceTime")
    /\ UNCHANGED << cfgVars, steadyVars, angleVars, error, dt, dt_c, fieldVars, tf, saveCount,
                    save_next_timestep, u_max_k1, dt_new, ioVars, bcu, interpolated,
                    A1, solved,
                    iterFlag, iterCount, corrected >>

\* lines 319-324: record the new peak velocity, advance the simulation time
AdvanceTime ==
    /\ pc = "advance"
    /\ u_max' = u_k
    /\ simTime' = simTime + dt
    /\ pc' = IF save_next_timestep THEN "inlet" ELSE "adjust"
    /\ steps' = Append(steps, "AdvanceTime")
    /\ UNCHANGED << cfgVars, steadyVars, angleVars, error, dt, dt_c, fieldVars, tf, saveCount,
                    save_next_timestep, u_max_k1, dt_new, ioVars, bcu, interpolated,
                    A1, solved,
                    iterFlag, iterCount, corrected >>

\* mutant of SlicesExhausted: the bound is off by one
SlicesExhausted_OffByOne(count, n) == count > n

\* updateInletVelocityFromFile, line 578: no slice is left for this index
SlicesExhausted(count, n) == count > n - 1

\* updateInletVelocityFromFile(saveCount, bcu), lines 546-625
updateInletVelocityFromFile ==
    /\ pc = "inlet"
    /\ IF SlicesExhausted(saveCount, nslices)
       THEN /\ Raise("ValueError_Slices")
            /\ UNCHANGED << bcu, interpolated >>
       ELSE /\ interpolated' = interpolated \cup {saveCount}
            /\ bcu' = [bcu EXCEPT ![1].slice = saveCount]
            /\ pc' = "save"
            /\ error' = error
    /\ steps' = Append(steps, "updateInletVelocityFromFile")
    /\ UNCHANGED << cfgVars, steadyVars, angleVars, dt, dt_c, fieldVars, tf, loopVars, u_max, u_max_k1,
                    dt_new, ioVars, A1, solved,
                    iterFlag, iterCount, corrected >>

\* SaveTimeSeries(fp, t), lines 353-379: the records it appends; the write of
\* the turbine force uses the fourth handle
Written(files, t) ==
    << [file |-> files[1], field |-> "Velocity", time |-> t],
       [file |-> files[2], field |-> "Pressure", time |-> t] >>
        \o (IF Len(files) >= 4
            THEN << [file |-> files[4], field |-> "Turbine_Force", time |-> t] >>
            ELSE << >>)

\* mutant of NextSaveCount: the save is not counted
NextSaveCount_Same(count) == count

\* line 329: saveCount += 1
NextSaveCount(count) == count + 1

\* lines 328-333: count the save, clean up simTime, write the time series
SaveStep ==
    /\ pc = "save"
    /\ saveCount' = NextSaveCount(saveCount)
    /\ simTime' = saveInterval * saveCount'
    /\ saveCalls' = Append(saveCalls, simTime')
    /\ records' = records \o Written(fp, simTime')
    /\ IF Len(fp) >= 4
       THEN pc' = "adjust" /\ error' = error
       ELSE Raise("IndexError_fp")
    /\ steps' = Append(steps, "SaveTimeSeries")
    /\ UNCHANGED << cfgVars, steadyVars, angleVars, dt, dt_c, fieldVars, tf, save_next_timestep, u_max,
                    u_max_k1, dt_new, fp, savedInputs, bcu, interpolated, A1, solved,
                    iterFlag, iterCount, corrected >>

\* AdjustTimestepSize: u_max_projected, lines 393-396
u_max_projected == u_max + (u_max - u_max_k1)

\* AdjustTimestepSize: time_remaining, line 408
time_remaining == saveInterval - (simTime % saveInterval)

\* mutant of Candidate: an increase of dt is taken over at once
Candidate_NoRelaxation ==
    RoundDiv(cfl_target * hmin * TicksPerUnit, 10 * u_max_projected)

\* AdjustTimestepSize: the candidate dt, lines 399-405
Candidate ==
    LET ideal == RoundDiv(cfl_target * hmin * TicksPerUnit, 10 * u_max_projected)
    IN  IF ideal > dt THEN RoundDiv(ideal + dt, 2) ELSE ideal

\* mutant of SaveDue: the margin dt_min is left out of the comparison
SaveDue_NoMargin(cand, remaining) == cand >= remaining

\* AdjustTimestepSize, line 411: the candidate would jump past the save point
SaveDue(cand, remaining) == cand + dt_min >= remaining

\* mutant of AdjustTimestepSize: the loop goes on without reassembling A1
AdjustTimestepSize_NoReassembly ==
    /\ pc = "adjust"
    /\ IF u_max_projected = 0
       THEN /\ Raise("ZeroDivisionError")
            /\ UNCHANGED << dt, dt_c, dt_new, save_next_timestep >>
       ELSE /\ dt_new' = Candidate
            /\ IF SaveDue(Candidate, time_remaining)
               THEN dt' = time_remaining /\ save_next_timestep' = TRUE
               ELSE dt' = Candidate /\ save_next_timestep' = FALSE
            /\ dt_c' = dt'
            /\ pc' = "loop"
            /\ error' = error
    /\ steps' = Append(steps, "AdjustTimestepSize")
    /\ UNCHANGED << cfgVars, steadyVars, angleVars, fieldVars, tf, simTime, saveCount, u_max, u_max_k1,
                    ioVars, bcu, interpolated, A1, solved,
                    iterFlag, iterCount, corrected >>

\* AdjustTimestepSize(saveInterval, simTime, u_max, u_max_k1), lines 384-423,
\* and the assignment of its result, line 336
AdjustTimestepSize ==
    /\ pc = "adjust"
    /\ IF u_max_projected = 0
       THEN /\ Raise("ZeroDivisionError")
            /\ UNCHANGED << dt, dt_c, dt_new, save_next_timestep >>
       ELSE /\ dt_new' = Candidate
            /\ IF SaveDue(Candidate, time_remaining)
               THEN dt' = time_remaining /\ save_next_timestep' = TRUE
               ELSE dt' = Candidate /\ save_next_timestep' = FALSE
            /\ dt_c' = dt'
            /\ pc' = "assemble"
            /\ error' = error
    /\ steps' = Append(steps, "AdjustTimestepSize")
    /\ UNCHANGED << cfgVars, steadyVars, angleVars, fieldVars, tf, simTime, saveCount, u_max, u_max_k1,
                    ioVars, bcu, interpolated, A1, solved,
                    iterFlag, iterCount, corrected >>

\* mutant of Reassemble: the velocity conditions applied are the ones of the
\* first assembly
Reassemble_StaleInlet ==
    /\ pc = "assemble"
    /\ A1' = [dt |-> dt_c, inlet |-> A1.inlet]
    /\ pc' = "loop"
    /\ steps' = Append(steps, "Reassemble")
    /\ UNCHANGED << cfgVars, steadyVars, angleVars, error, dt, dt_c, fieldVars, tf, loopVars, u_max, u_max_k1,
                    dt_new, ioVars, bcu, interpolated, solved,
                    iterFlag, iterCount, corrected >>

\* lines 340-341: A1 is assembled again and the velocity conditions applied
Reassemble ==
    /\ pc = "assemble"
    /\ A1' = [dt |-> dt_c, inlet |-> bcu[1].slice]
    /\ pc' = "loop"
    /\ steps' = Append(steps, "Reassemble")
    /\ UNCHANGED << cfgVars, steadyVars, angleVars, error, dt, dt_c, fieldVars, tf, loopVars, u_max, u_max_k1,
                    dt_new, ioVars, bcu, interpolated, solved,
                    iterFlag, iterCount, corrected >>

(***************************************************************************)
(* SteadySolver.Solve                                                      *)
(***************************************************************************)
\* the iter_val the running Solve was called with (line 110, line 930)
iter_val == IF solver = "MultiAngleSolver" THEN angles[ai] ELSE 0

\* lines 116-125: save the input data the output list names
SteadySaveInputs ==
    /\ solver \in {"SteadySolver", "MultiAngleSolver"} /\ pc = "Solve"
    /\ savedInputs' = savedInputs \cup
            (params.output \cap {"mesh", "initial_guess", "height", "turbine_force"})
    /\ ret' = NotReturned
    /\ pc' = "nonlinear"
    /\ UNCHANGED << cfgVars, angleVars, error, dt, dt_c, fieldVars, tf, loopVars, u_max,
                    u_max_k1, dt_new, fp, records, saveCalls, bcu, interpolated, A1,
                    solved, up_next, u_next, nu_T, first_save, solutions, snes,
                    solveLog, histVars, F >>

\* lines 157-170: solve(F == 0, up_next, bcs) with error_on_nonconvergence False:
\* the solver stops converged or not, after some iterations, and does not raise
NonlinearSolve ==
    /\ pc = "nonlinear"
    /\ \E c \in BOOLEAN, n \in IterSamples :
          /\ snes' = [converged |-> c, iters |-> n]
          /\ up_next' = IF c THEN "converged" ELSE "unconverged"
    /\ solveLog' = Append(solveLog, [angle |-> iter_val, wind |-> wind,
                                     guess |-> up_next])
    /\ solved' = TRUE
    /\ pc' = "post"
    /\ UNCHANGED << cfgVars, angleVars, error, unsteadyVars, savedInputs, u_next, nu_T,
                    first_save, solutions, ret, F >>

\* lines 171-172: split the solution, project the eddy viscosity
PostSolve ==
    /\ pc = "post"
    /\ u_next' = up_next
    /\ nu_T' = "projected"
    /\ pc' = "save_solution"
    /\ UNCHANGED << cfgVars, angleVars, error, unsteadyVars, savedInputs, solved,
                    up_next, first_save, solutions, snes, ret, solveLog, F >>

\* lines 174-178 and GenericSolver.Save (lines 77-89), then Solve ends: it has
\* no return statement
SaveSolution ==
    /\ pc = "save_solution"
    /\ IF "solution" \in params.output
       THEN /\ solutions' = Append(solutions, [val |-> iter_val, u |-> u_next,
                                                 appended |-> ~first_save])
            /\ first_save' = FALSE
       ELSE UNCHANGED << solutions, first_save >>
    /\ ret' = ReturnedNone
    /\ pc' = IF solver = "MultiAngleSolver" THEN "angle_loop" ELSE "done"
    /\ UNCHANGED << cfgVars, angleVars, error, unsteadyVars, savedInputs, solved,
                    up_next, u_next, nu_T, snes, solveLog, F >>

(***************************************************************************)
(* MultiAngleSolver                                                        *)
(***************************************************************************)
\* np.linspace(a, b, n): n values from a to b, both ends included
Linspace(a, b, n) ==
    [i \in 1..n |-> IF n = 1 THEN a ELSE a + RoundDiv((i - 1) * (b - a), n - 1)]

\* mutant of DomainAccepted: the domain type is not checked
DomainAccepted_Any(domain) == TRUE

\* MultiAngleSolver.__init__, line 916: the domain types a sweep can use
DomainAccepted(domain) == domain \in {"cylinder", "interpolated"}

\* MultiAngleSolver.__init__, lines 914-922
MultiAngleConstruct ==
    /\ pc = "construct"
    /\ IF ~DomainAccepted(params.domain)
       THEN /\ Raise("ValueError_Domain")
            /\ UNCHANGED angles
       ELSE /\ angles' = Linspace(params.init_wind, params.final_wind, params.num_wind)
            /\ pc' = "angle_loop"
            /\ error' = error
    /\ UNCHANGED << cfgVars, ai, wind, theta, calls, callLog, unsteadyVars,
                    savedInputs, solved, steadyVars >>

\* MultiAngleSolver.Solve, lines 925-928: take the next angle
MultiAngleNext ==
    /\ pc = "angle_loop"
    /\ IF ai = Len(angles)
       THEN pc' = "done" /\ ai' = ai /\ theta' = theta
       ELSE /\ ai' = ai + 1
            /\ theta' = angles[ai']
            /\ pc' = IF ai' - 1 > 0 \/ angles[ai'] # params.init_wind
                     THEN "change_angle" ELSE "Solve"
    /\ UNCHANGED << cfgVars, angles, wind, calls, callLog, error, unsteadyVars,
                    savedInputs, solved, steadyVars >>

\* a script calls problem.ChangeWindAngle(a) on the problem it holds
CallChangeWindAngle ==
    /\ solver = "Caller" /\ pc = "idle"
    /\ calls < MaxCalls
    /\ calls' = calls + 1
    /\ \E a \in CallAngles : theta' = a
    /\ pc' = "change_angle"
    /\ UNCHANGED << cfgVars, angles, ai, wind, callLog, error, unsteadyVars,
                    savedInputs, solved, steadyVars >>

\* GenericProblem.ChangeWindAngle, line 62: dom.RecomputeBoundaryMarkers(theta)
RecomputeBoundaryMarkers ==
    /\ pc = "change_angle"
    /\ wind' = [wind EXCEPT !.markers = theta]
    /\ pc' = "recompute_velocity"
    /\ UNCHANGED << cfgVars, angles, ai, theta, calls, callLog, error, unsteadyVars,
                    savedInputs, solved, steadyVars >>

\* GenericProblem.ChangeWindAngle, line 63: bd.RecomputeVelocity(theta)
RecomputeVelocity ==
    /\ pc = "recompute_velocity"
    /\ wind' = [wind EXCEPT !.velocity = theta]
    /\ pc' = "compute_functional"
    /\ UNCHANGED << cfgVars, angles, ai, theta, calls, callLog, error, unsteadyVars,
                    savedInputs, solved, steadyVars >>

\* the problem classes that define ComputeFunctional (ProblemManager.py line 93)
HasComputeFunctional(type) == type = "stabilized"

\* GenericProblem.ChangeWindAngle, line 64: self.ComputeFunctional(theta).
\* StabilizedProblem.ComputeFunctional (lines 93-145) makes a new up_next holding
\* the initial guess bd.u0 and rebuilds the turbine force and the residual; the
\* other problem classes have no such method
ComputeFunctional ==
    /\ pc = "compute_functional"
    /\ IF HasComputeFunctional(params.type)
       THEN /\ wind' = [wind EXCEPT !.force = theta - params.init_wind]
            /\ up_next' = "u0"
            /\ F' = TurbineTerm(farm.yaw)
            /\ pc' = IF solver = "Caller" THEN "idle" ELSE "Solve"
            /\ error' = error
       ELSE /\ UNCHANGED << wind, up_next, F >>
            /\ Raise("AttributeError_ComputeFunctional")
    /\ callLog' = Append(callLog, [theta |-> theta, wind |-> wind', guess |-> up_next',
                                   ok |-> HasComputeFunctional(params.type)])
    /\ UNCHANGED << cfgVars, angles, ai, theta, calls, unsteadyVars, savedInputs,
                    solved, u_next, nu_T, first_save, solutions, snes, ret, solveLog >>

\* GenericSolver.ChangeWindAngle (lines 91-98) and GenericProblem.ChangeWindAngle
\* (ProblemManager.py lines 52-67)
ChangeWindAngle ==
    \/ RecomputeBoundaryMarkers
    \/ RecomputeVelocity
    \/ ComputeFunctional

Next ==
    \/ SteadySaveInputs
    \/ NonlinearSolve
    \/ PostSolve
    \/ SaveSolution
    \/ MultiAngleConstruct
    \/ MultiAngleNext
    \/ CallChangeWindAngle
    \/ ChangeWindAngle
    \/ SolveCheckType
    \/ SolveSetup
    \/ LoopTest
    \/ UpdateTurbineForce
    \/ TentativeVelocity
    \/ PressureCorrection
    \/ VelocityCorrection
    \/ HistoryShift
    \/ AdvanceTime
    \/ updateInletVelocityFromFile
    \/ SaveStep
    \/ AdjustTimestepSize
    \/ Reassemble

Spec == Init /\ [][Next]_vars

\* updateInletVelocityFromFile, line 609, for a boundary point that is the
\* grid node (y[i], z[j]): ui = self.bilinearInterp(xi[1], xi[2], y, z, [u, v, w])
InterpolateAtNode ==
    /\ pc = "interpolate"
    /\ \E i \in 1..Len(interp.y), j \in 1..Len(interp.z) :
            interp' = [interp EXCEPT
                        !.i = i, !.j = j, !.xi = interp.y[i], !.yi = interp.z[j],
                        !.result = bilinearInterp(interp.y[i], interp.z[j], interp.y,
                                                  interp.z, interp.velList)]
    /\ pc' = "interpolated"
    /\ UNCHANGED << solver, params, hmin, vmax, nslices, farm, force, error,
                    unsteadyVars, savedInputs, solved, steadyVars, angleVars >>

\* updateInletVelocityFromFile, line 609, for a boundary point anywhere:
\* ui = self.bilinearInterp(xi[1], xi[2], y, z, [u, v, w])
InterpolateAnywhere ==
    /\ pc = "interpolate"
    /\ \E xi \in QueryValues, yi \in QueryValues :
            interp' = [interp EXCEPT
                        !.xi = xi, !.yi = yi,
                        !.result = bilinearInterp(xi, yi, interp.y, interp.z,
                                                  interp.velList)]
    /\ pc' = "interpolated"
    /\ UNCHANGED << solver, params, hmin, vmax, nslices, farm, force, error,
                    unsteadyVars, savedInputs, solved, steadyVars, angleVars >>

InterpAnySpec == InterpInit /\ [][InterpolateAnywhere]_vars

InterpSpec == InterpInit /\ [][InterpolateAtNode]_vars

\* mutant of UpdateTurbineForceVector: the new vector is added to tf
UpdateTurbineForceVector_Accumulate ==
    /\ pc = "force_call"
    /\ force.calls < MaxForceCalls
    /\ force' = [force EXCEPT !.tf = [n \in 1..Len(force.tf) |->
                                            force.tf[n] + tf_vec(force)[n]],
                                !.before = force.tf,
                                !.calls = @ + 1]
    /\ UNCHANGED << solver, params, hmin, vmax, nslices, farm, interp, pc, error,
                    unsteadyVars, savedInputs, solved, steadyVars, angleVars >>

\* self.UpdateTurbineForce(simTime, 1), lines 427-524, on the numeric vector:
\* self.problem.tf.vector()[:] = tf_vec
UpdateTurbineForceVector ==
    /\ pc = "force_call"
    /\ force.calls < MaxForceCalls
    /\ force' = [force EXCEPT !.tf = tf_vec(force), !.before = force.tf,
                                !.calls = @ + 1]
    /\ UNCHANGED << solver, params, hmin, vmax, nslices, farm, interp, pc, error,
                    unsteadyVars, savedInputs, solved, steadyVars, angleVars >>

ForceSpec == ForceInit /\ [][UpdateTurbineForceVector]_vars

\* Solve is one thread of control: while a statement can run, it runs
FairSpec == Spec /\ WF_vars(Next)

(***************************************************************************)
(* The claims.                                                             *)
(***************************************************************************)
\* the next multiple of saveInterval above t
NextSaveTime(t) == ((t \div saveInterval) + 1) * saveInterval

\* an unsteady run that no configuration error and no missing file or handle ends
SoundUnsteadyRun ==
    /\ solver = "UnsteadySolver"
    /\ params.type = "unsteady"
    /\ "turbine_force" \in params.output
    /\ nslices * saveInterval >= tFinal

\* C1: after every call of AdjustTimestepSize the stored timestep problem.dt
\* and the constant dt_c are at least dt_min
C1_DtAtLeastMin ==
    (solver = "UnsteadySolver" /\ pc = "assemble") => (dt >= dt_min /\ dt_c >= dt_min)

\* C2: in every iteration of the time loop, the first one included, advancing
\* simTime by dt does not carry it past the next scheduled save time
C2_NoOvershoot ==
    [][pc = "advance" => simTime' <= NextSaveTime(simTime)]_vars

\* C3: with time_remaining = saveInterval - (simTime mod saveInterval), a
\* candidate with dt_new + dt_min >= time_remaining gives dt = time_remaining
\* and save = true; every other candidate is kept as dt, with save = false
C3_SaveClamp ==
    (solver = "UnsteadySolver" /\ pc = "assemble") =>
        LET remaining == saveInterval - (simTime % saveInterval)
        IN  IF dt_new + dt_min >= remaining
            THEN dt = remaining /\ dt_c = remaining /\ save_next_timestep
            ELSE dt = dt_new /\ dt_c = dt_new /\ ~save_next_timestep

\* C3 witness: a candidate within dt_min of the save point was clamped
C3_Clamped ==
    /\ pc = "assemble"
    /\ save_next_timestep
    /\ dt_new < dt
    /\ dt = saveInterval - (simTime % saveInterval)

\* C4: the time loop eventually reaches simTime >= tFinal and stops, whatever
\* peak velocities the solves produce (runs that leave the modelled window of
\* simulation times are not judged)
C4_Terminates ==
    SoundUnsteadyRun => <>(pc = "done" \/ simTime < -MaxBack)

\* C5: every SaveTimeSeries call is made with a simTime strictly greater than
\* that of every earlier call, and the records are in order of simulation time
C5_SaveTimesIncrease ==
    /\ \A i, j \in 1..Len(saveCalls) : i < j => saveCalls[i] < saveCalls[j]
    /\ \A i, j \in 1..Len(records) : i < j => records[i].time <= records[j].time

\* C5 witness: several saves were made
C5_SeveralSaves == Len(saveCalls) >= 3 /\ Len(records) >= 9

\* C6: at every saved timestep exactly one record is written for each of
\* velocity, pressure, eddy viscosity and turbine force
C6_FourFieldsPerSave ==
    \A n \in 1..Len(saveCalls) :
        \A f \in {"Velocity", "Pressure", "nu_T", "Turbine_Force"} :
            Cardinality({i \in 1..Len(records) :
                            records[i].time = saveCalls[n] /\ records[i].field = f}) = 1

\* C7: updateInletVelocityFromFile raises exactly when saveCount exceeds the
\* last slice; it raises before any interpolation and before bcu is changed,
\* and the run ends there
C7_SlicesExhausted ==
    /\ error = "ValueError_Slices" =>
            /\ pc = "raised"
            /\ saveCount > nslices - 1
            /\ saveCount \notin interpolated
            /\ bcu[1].slice = saveCount - 1
            /\ Len(saveCalls) = saveCount
    /\ pc = "save" =>
            /\ saveCount <= nslices - 1
            /\ saveCount \in interpolated
            /\ bcu[1].slice = saveCount
    /\ \A k \in interpolated : k <= nslices - 1

\* C7 witness: the run ended on exhausted slices after some slices were used
C7_Exhausted == error = "ValueError_Slices" /\ interpolated # {}

\* C8: UnsteadySolver.Solve on a problem that is not unsteady raises at once:
\* no file opened, no input saved, no matrix assembled, no solve attempted, the
\* problem state unchanged
C8_WrongProblemType ==
    (solver = "UnsteadySolver" /\ params.type # "unsteady") =>
        /\ pc \in {"Solve", "raised"}
        /\ pc = "raised" => error = "ValueError_ProblemType"
        /\ fp = << >> /\ savedInputs = {} /\ records = << >>
        /\ A1 = NoMatrix /\ ~solved
        /\ dt = InitialDt(hmin, vmax) /\ dt_c = dt
        /\ u_k = 0 /\ u_k1 = vmax /\ u_k2 = vmax /\ p_k = 0 /\ p_k1 = 0 /\ tf = 0

\* C8 witness: the configuration error was raised
C8_Raised == error = "ValueError_ProblemType" /\ pc = "raised"

\* C9: constructing a MultiAngleSolver on a domain that is neither a cylinder
\* nor interpolated raises, so the solver never solves nor changes the wind
\* angle; on the two accepted domain types construction succeeds
C9_DomainType ==
    solver = "MultiAngleSolver" =>
        /\ params.domain \notin {"cylinder", "interpolated"} =>
                /\ pc \in {"construct", "raised"}
                /\ pc = "raised" => error = "ValueError_Domain"
                /\ angles = << >> /\ ~solved /\ wind = WindAt(params.init_wind)
        /\ (params.domain \in {"cylinder", "interpolated"} /\ pc # "construct") =>
                /\ error # "ValueError_Domain"
                /\ Len(angles) = params.num_wind

\* C9 witness: the construction was refused
C9_Refused == error = "ValueError_Domain" /\ params.domain = "box"

\* C10: when the nonlinear solve does not converge, SteadySolver.Solve does not
\* raise, hands the caller the convergence flag and the iteration count, and
\* has run the post-solve steps
C10_NonConvergenceReported ==
    (solver = "SteadySolver" /\ pc = "done" /\ ~snes.converged) =>
        /\ error = "none"
        /\ ret = [kind |-> "flag_and_count", converged |-> snes.converged,
                  iters |-> snes.iters]
        /\ u_next = up_next /\ nu_T = "projected"

\* C11: in MultiAngleSolver.Solve the angles are solved in order, each exactly
\* once, each with the wind angle set to it before its solve; the wind angle
\* is set by a ChangeWindAngle call for every angle but a first angle that is
\* already the initial wind angle
C11_AngleSweep ==
    (solver = "MultiAngleSolver" /\ pc # "construct" /\ error # "ValueError_Domain") =>
        /\ Len(solveLog) <= Len(angles)
        /\ \A i \in 1..Len(solveLog) :
                /\ solveLog[i].angle = angles[i]
                /\ solveLog[i].wind = WindAt(angles[i])
        /\ pc \in {"done", "raised"} => Len(solveLog) = Len(angles)
        /\ pc = "Solve" =>
                Len(callLog) = IF angles[1] = params.init_wind THEN ai - 1 ELSE ai
        /\ \A i \in 1..Len(callLog) : callLog[i].ok

\* C12: ChangeWindAngle can be called any number of times with any angles, on
\* every problem, and a second call in a row with the same angle leaves the
\* markers, the boundary velocity, the turbine force and the solution field as
\* the first call left them
C12_Idempotent ==
    /\ \A i \in 1..Len(callLog) : callLog[i].ok
    /\ solver = "Caller" =>
            \A i \in 2..Len(callLog) :
                callLog[i].theta = callLog[i-1].theta =>
                    /\ callLog[i].wind = callLog[i-1].wind
                    /\ callLog[i].guess = callLog[i-1].guess

\* C13: on a stabilized, a Taylor-Hood and an unsteady problem alike,
\* ChangeWindAngle(theta) ends without error, having recomputed the boundary
\* markers, then the boundary velocity, then the turbine force and residual
C13_AllVariantsChangeAngle ==
    /\ error # "AttributeError_ComputeFunctional"
    /\ pc = "recompute_velocity" => wind.markers = theta
    /\ pc = "compute_functional" => (wind.markers = theta /\ wind.velocity = theta)
    /\ \A i \in 1..Len(callLog) : callLog[i].wind = WindAt(callLog[i].theta)

\* C14: queried at the grid node (y[i], z[j]) of ascending coordinate vectors,
\* bilinearInterp returns the grid value u[i, j] of every component of
\* velocity grids of shape [ny, nz]
C14_NodeValuesExact ==
    pc = "interpolated" =>
        interp.result =
            [kind |-> "value",
             ui |-> [c \in 1..Len(interp.velList) |->
                        interp.velList[c][interp.i][interp.j]]]

\* the positions at which ChangeWindAngle, UpdateTurbineForce,
\* updateInletVelocityFromFile, SaveTimeSeries and AdjustTimestepSize run
FramePositions ==
    {"change_angle", "recompute_velocity", "compute_functional", "force", "inlet",
     "save", "adjust"}

\* C15 as stated: ChangeWindAngle, UpdateTurbineForce, AdjustTimestepSize,
\* updateInletVelocityFromFile and SaveTimeSeries leave u_k, u_k1, u_k2, p_k,
\* p_k1 and up_next as they were
C15_FieldsFrame ==
    [][(pc \in FramePositions) => (fieldVars' = fieldVars /\ up_next' = up_next)]_vars

\* C15 as amended: these operations leave the unsteady fields as they were, and
\* up_next too but for ChangeWindAngle on a stabilized problem, which replaces
\* up_next by the initial guess
C15_FieldsFrameAmended ==
    [][(pc \in FramePositions) =>
            /\ fieldVars' = fieldVars
            /\ \/ up_next' = up_next
               \/ /\ pc = "compute_functional"
                  /\ params.type = "stabilized"
                  /\ up_next' = "u0"]_vars

\* C15 witness: a sweep whose ChangeWindAngle call put the initial guess back, so
\* that the second solve started from it
C15_GuessReset ==
    /\ solver = "MultiAngleSolver"
    /\ Len(callLog) >= 1 /\ callLog[1].ok /\ callLog[1].guess = "u0"
    /\ Len(solveLog) >= 2 /\ solveLog[2].guess = "u0"

\* 0.2 * hmin / (um + (um - um1)) in ticks
IdealDt(um, um1) == RoundDiv(2 * hmin * TicksPerUnit, 10 * (um + (um - um1)))

\* C16: the candidate before save-clamping is 0.2*hmin/(u_max + (u_max - u_max_k1));
\* a candidate larger than the current dt is replaced by the mean of the two, a
\* candidate not larger than the current dt is used as it is
C16_Relaxation ==
    [][(pc = "adjust" /\ pc' = "assemble") =>
            dt_new' = IF IdealDt(u_max, u_max_k1) > dt
                      THEN RoundDiv(IdealDt(u_max, u_max_k1) + dt, 2)
                      ELSE IdealDt(u_max, u_max_k1)]_vars

\* C16 witness: an increase of dt was relaxed, the candidate lies below the
\* ideal timestep
C16_Relaxed ==
    /\ pc = "assemble"
    /\ dt_new > 0 /\ dt_new < IdealDt(u_max, u_max_k1)
    /\ ~save_next_timestep /\ dt = dt_new

\* the steps of one loop iteration in the order of lines 293-341, with or
\* without the inflow reload and the save
IterationSteps(save) ==
    << "UpdateTurbineForce", "TentativeVelocity", "PressureCorrection",
       "VelocityCorrection", "HistoryShift", "AdvanceTime" >>
    \o (IF save THEN << "updateInletVelocityFromFile", "SaveTimeSeries" >> ELSE << >>)
    \o << "AdjustTimestepSize", "Reassemble" >>

IsPrefix(a, b) == Len(a) <= Len(b) /\ SubSeq(b, 1, Len(a)) = a

\* C17: an iteration of the unsteady loop performs, in this order and each once,
\* turbine force, tentative velocity, pressure correction, velocity
\* correction, history shift, time advance, reload and save if due, timestep
\* adaptation, reassembly; the next iteration starts only after the last step
C17_StepOrder ==
    solver = "UnsteadySolver" =>
        /\ \E save \in BOOLEAN : IsPrefix(steps, IterationSteps(save))
        /\ (pc \in {"loop", "done"} /\ iterCount > 0) =>
                \E save \in BOOLEAN : steps = IterationSteps(save)
        /\ pc = "force" => steps = << >>

\* C17 witness: a later iteration ran all its steps, the reload and the save
\* included
C17_FullIteration ==
    pc = "loop" /\ iterCount = 2 /\ steps = IterationSteps(TRUE)

\* C18: the history shift puts the old u_k1 into u_k2, the velocity just
\* corrected into u_k1 and the pressure just computed into p_k1, and leaves
\* u_k and p_k as they are
C18_HistoryShifted ==
    [][(pc = "shift") =>
            /\ u_k = corrected
            /\ u_k2' = u_k1 /\ u_k1' = u_k /\ p_k1' = p_k
            /\ u_k' = u_k /\ p_k' = p_k]_vars

\* C18 witness: after a shift of a later iteration the three velocity levels
\* hold three different fields
C18_ThreeLevels ==
    /\ pc = "advance" /\ iterCount = 2
    /\ u_k1 = corrected /\ u_k2 # u_k1 /\ p_k1 = p_k /\ p_k1 # u_k1

\* C19: the turbine force the tentative-velocity solve of an iteration uses was
\* computed at the start of that iteration from u_k1: the seeded initial
\* condition in the first iteration, the velocity the previous iteration
\* corrected in every later one
C19_LaggedTurbineForce ==
    pc \in {"step1", "step2", "step3"} =>
        /\ steps[1] = "UpdateTurbineForce"
        /\ tf = IF iterCount = 1 THEN vmax ELSE corrected

\* C19 witness: in a later iteration the tentative velocity was solved with a
\* force from the previous corrected velocity, which differs from the seed and
\* from the tentative velocity
C19_ForceFromPrevious ==
    /\ pc = "step2" /\ iterCount = 2
    /\ tf = corrected /\ tf # vmax /\ tf # u_k

\* the running iteration has reloaded the inflow / has saved the time series
Reloaded == \E k \in 1..Len(steps) : steps[k] = "updateInletVelocityFromFile"
Saved == \E k \in 1..Len(steps) : steps[k] = "SaveTimeSeries"

\* C20: an iteration reloads the inflow and saves the time series exactly when
\* the AdjustTimestepSize of the iteration before returned true, so never in
\* the first iteration; a save adds one to saveCount and sets simTime to
\* saveInterval*saveCount, and the records written carry that time
C20_SaveFollowsFlag ==
    /\ [](/\ iterCount = 1 => ~iterFlag
          /\ (pc \in {"adjust", "assemble", "loop", "done"} /\ iterCount > 0) =>
                 /\ Reloaded <=> iterFlag
                 /\ Saved <=> iterFlag
          /\ (pc \in {"inlet", "save"}) => iterFlag)
    /\ [][(pc = "save") =>
            /\ saveCount' = saveCount + 1
            /\ simTime' = saveInterval * saveCount'
            /\ Len(saveCalls') = Len(saveCalls) + 1
            /\ saveCalls'[Len(saveCalls')] = simTime'
            /\ \A k \in (Len(records) + 1)..Len(records') :
                    records'[k].time = simTime']_vars

\* C20 witness: a later iteration began flagged, reloaded the inflow and saved
\* at the second save time
C20_FlaggedSave ==
    /\ pc = "loop" /\ iterFlag /\ Reloaded /\ Saved
    /\ saveCount = 2 /\ simTime = saveInterval * 2

\* C21: at the start of every tentative-velocity solve A1 is the matrix
\* assembled with the dt of the right-hand sides (dt_c), which is the dt that
\* simTime is advanced by in that iteration, and with the current velocity
\* boundary conditions applied; nothing between the solve and the advance of
\* simTime changes dt
C21_MatrixCurrent ==
    /\ [](pc = "step1" =>
            /\ A1 = [dt |-> dt_c, inlet |-> bcu[1].slice]
            /\ dt_c = dt)
    /\ [][(pc = "advance") => simTime' = simTime + A1.dt]_vars

\* C21 witness: a tentative-velocity solve is about to start after dt has been
\* adapted and a new inflow slice has been loaded
C21_SolveAfterChange ==
    /\ pc = "step1"
    /\ iterCount = 2
    /\ dt # InitialDt(hmin, vmax)
    /\ bcu[1].slice # InitialBcu[1].slice
    /\ A1.dt = dt

\* C22: in the steady problem variants the turbine force enters the residual
\* as the vector term if any turbine of the farm has squared yaw above 1e-4,
\* and as the scalar-times-velocity-squared term only if every turbine has
\* squared yaw at most 1e-4
C22_YawThreshold ==
    params.type \in {"stabilized", "taylor_hood"} =>
        /\ (\E k \in 1..Len(farm.yaw) : farm.yaw[k] * farm.yaw[k] > YawSquaredLimit)
                => F = "vector"
        /\ F = "scalar"
                => \A k \in 1..Len(farm.yaw) : farm.yaw[k] * farm.yaw[k] <= YawSquaredLimit

\* C23: after every call of UpdateTurbineForce every entry of tf is exactly 0
\* or has magnitude at least 1e-50, and an entry whose computed magnitude (the
\* sum of the contributions) is at least 1e-50 is stored unchanged
C23_SmallForcesZeroed ==
    force.calls > 0 =>
        \A n \in 1..Len(force.tf) :
            LET computed == tf_array(force, force.numturbs,
                                     ((n - 1) \div ForceDim) + 1, (n - 1) % ForceDim)
            IN  /\ force.tf[n] = 0 \/ Abs(force.tf[n]) >= ForceFloor
                /\ Abs(computed) >= ForceFloor => force.tf[n] = computed

\* C23 witness: after a call one entry was computed below 1e-50 and is 0,
\* another was computed as exactly 1e-50 and is kept
C23_ZeroedAndKept ==
    /\ force.calls > 0
    /\ \E n \in 1..Len(force.tf) :
          LET computed == tf_array(force, force.numturbs,
                                   ((n - 1) \div ForceDim) + 1, (n - 1) % ForceDim)
          IN  computed # 0 /\ Abs(computed) < ForceFloor /\ force.tf[n] = 0
    /\ \E n \in 1..Len(force.tf) :
          /\ tf_array(force, force.numturbs,
                      ((n - 1) \div ForceDim) + 1, (n - 1) % ForceDim) = ForceFloor
          /\ force.tf[n] = ForceFloor

\* the sum of the contributions of all turbines to entry n of tf.vector()
ContributionSum(n) ==
    tf_array(force, force.numturbs, ((n - 1) \div ForceDim) + 1, (n - 1) % ForceDim)

\* C24: UpdateTurbineForce overwrites the force field: after it tf equals, at
\* every point, the sum of the contributions of all turbines computed from the
\* turbine parameters and u_k1, whatever tf held before, so a second call with
\* unchanged turbines and velocity gives the same tf, and a farm of zero
\* turbines gives tf equal to 0 everywhere
C24_ForceOverwritten ==
    /\ [](force.calls > 0 =>
            /\ \A n \in 1..Len(force.tf) : force.tf[n] = ContributionSum(n)
            /\ force.numturbs = 0 => \A n \in 1..Len(force.tf) : force.tf[n] = 0)
    /\ [][(force.calls > 0) => force'.tf = force.tf]_vars

\* C24 amended: after UpdateTurbineForce tf equals, at every point, the sum of
\* the contributions of all turbines computed from the turbine parameters and
\* u_k1, with every entry of magnitude below 1e-50 replaced by 0, whatever tf
\* held before; a second call with unchanged turbines and velocity gives the
\* same tf, and a farm of zero turbines gives tf equal to 0 everywhere
C24_ForceOverwrittenAmended ==
    /\ [](force.calls > 0 =>
            /\ \A n \in 1..Len(force.tf) :
                    force.tf[n] = IF Abs(ContributionSum(n)) < ForceFloor
                                  THEN 0 ELSE ContributionSum(n)
            /\ force.numturbs = 0 => \A n \in 1..Len(force.tf) : force.tf[n] = 0)
    /\ [][(force.calls > 0) => force'.tf = force.tf]_vars

\* C24 witness: a second call on a farm of two turbines that both contribute
\* to an entry, which held another value before the first call
C24_TwoTurbinesTwice ==
    /\ force.calls = 2 /\ force.numturbs = 2
    /\ force.before = force.tf
    /\ \E n \in 1..Len(force.tf) :
          LET i == ((n - 1) \div ForceDim) + 1
              comp == (n - 1) % ForceDim
          IN  /\ Contribution(force, 1, i, comp) # 0
              /\ Contribution(force, 2, i, comp) # 0
              /\ force.tf[n] = Contribution(force, 1, i, comp)
                                    + Contribution(force, 2, i, comp)
              /\ force.tf[n] # 0 /\ force.tf[n] # 12

\* C25: simulation time never moves backward in the unsteady loop: after every
\* call of AdjustTimestepSize dt is strictly positive, and the reset
\* simTime = saveInterval*saveCount at a save never sets simTime to a value
\* smaller than the one reached before the reset
C25_TimeForward ==
    /\ []((solver = "UnsteadySolver" /\ pc = "assemble") => dt > 0)
    /\ [][(pc = "save") => simTime' >= simTime]_vars

\* C26: when UnsteadySolver.Solve returns normally simTime equals tFinal, and
\* exactly tFinal/saveInterval time-series records have been written, at the
\* simulation times saveInterval, 2*saveInterval, ..., the last one at tFinal
C26_EndsAtFinal ==
    (solver = "UnsteadySolver" /\ pc = "done") =>
        /\ simTime = tFinal
        /\ saveCalls = [k \in 1..(tFinal \div saveInterval) |-> k * saveInterval]
        /\ \A k \in 1..(tFinal \div saveInterval) :
                \E n \in 1..Len(records) :
                    records[n].field = "Velocity" /\ records[n].time = k * saveInterval

\* C27: SaveTimeSeries only writes to file handles that Solve has created:
\* for every setting of the output options every index of fp that a save uses
\* (0, 1 and 3) exists, so a save never fails on a missing handle
C27_HandlesExist ==
    /\ (solver = "UnsteadySolver" /\ pc = "save") => Len(fp) >= 4
    /\ error # "IndexError_fp"

\* C28: bilinearInterp never indexes outside its arrays: for coordinate
\* vectors of lengths ny >= 2 and nz >= 2, equal or not, velocity grids of
\* shape [ny, nz] and any query point, inside or outside the grid range, the
\* search stops with 1 <= pointer <= length-1 on each axis and every read of
\* the coordinate vectors and of the velocity grids is within bounds
C28_ReadsInBounds ==
    pc = "interpolated" =>
        LET xptr == NodePtr(interp.y, interp.xi, 1)
            yptr == NodePtr(interp.z, interp.yi, 1)
        IN  /\ 1 <= xptr /\ xptr <= Len(interp.y) - 1
            /\ 1 <= yptr /\ yptr <= Len(interp.z) - 1
            /\ \A c \in 1..Len(interp.velList) :
                    /\ yptr < Len(interp.velList[c])
                    /\ xptr < Len(interp.velList[c][1])
            /\ interp.result.kind = "value"
====
